---- MODULE Spec2Model ----
(***************************************************************************)
(* A model of the matrix room counter: the collector (matrixcounter.py)    *)
(* and the plotter (plot_counter.py), which share the counter file.        *)
(*                                                                         *)
(* Two specifications are given.  SpecRec drives the recorder add_data     *)
(* with arbitrary sequences of observations.  Spec is one run of the       *)
(* collector script from top to bottom, followed by a run of the plotter   *)
(* on the counter file found on disk.                                      *)
(***************************************************************************)
EXTENDS Integers, Sequences, FiniteSets, TLC

VARIABLES
    \* ---- recorder driven on its own (SpecRec) ----
    rdates,       \* the list 'dates' handed to add_data
    rvalues,      \* the list 'values' handed to add_data
    rstate,       \* "ok", or "exit1" once add_data called sys.exit(1)
    rinit,        \* the series the lists started from, <<dates, values>>
    robs,         \* the observations recorded so far, oldest first
    rnow,         \* the timestamp of the latest observation
    \* ---- one run of the collector, then the plotter (Spec) ----
    pc,           \* position in the script matrixcounter.py
    config,       \* the parsed command line
    statusfile,   \* content of the status file on disk
    counterfile,  \* content of the counter file on disk
    status,       \* the global 'status'
    access_token, \* matrix.access_token
    isodate,      \* the timestamp of this run
    joined,       \* room ids of the joined_rooms response not yet visited
    visited,      \* room ids of the joined_rooms response already visited
    room_info,    \* room id -> users, for every fetched member list
    unique_users, \* the union accumulated for 'total'
    calls,        \* series -> number of add_data calls made for it in this run
    stdout,       \* the messages printed
    exit,         \* "running", "0", "1" (sys.exit(1)) or "exception"
    trace,        \* the phases of the script passed so far, in order
    plot          \* result of the plotter

rvars == <<rdates, rvalues, rstate, rinit, robs, rnow>>
cvars == <<pc, config, statusfile, counterfile, status, access_token, isodate, joined,
           visited, room_info, unique_users, calls, stdout, exit, trace, plot>>
vars == <<rvars, cvars>>

\* ------------------------------------------------------------------ bounds
\* number of observations handed to the recorder in SpecRec
MaxObs == 5
\* the timestamp (a year) of the oldest stored point
FirstTime == 2024
\* the timestamp datetime.now() gives this run of the collector
Now == 2026

\* values an observation may carry (len(users)-1 is -1 for an empty room)
Vals == {-1, 5, 7}

\* ---------------------------------------------------------------- add_data
Last(s) == s[Len(s)]

SetLast(s, x) == [s EXCEPT ![Len(s)] = x]

\* add_data with the docstring's rule: flat as soon as the last value repeats
add_data_LastOnly(dates, values, date, value) ==
    IF Len(dates) # Len(values)
    THEN [err |-> TRUE, dates |-> dates, values |-> values]
    ELSE IF Len(dates) > 0 /\ value = Last(values)
         THEN [err |-> FALSE, dates |-> SetLast(dates, date), values |-> values]
         ELSE [err |-> FALSE, dates |-> Append(dates, date),
               values |-> Append(values, value)]

\* add_data that merges every observation once two points exist
add_data_AlwaysMerge(dates, values, date, value) ==
    IF Len(dates) # Len(values)
    THEN [err |-> TRUE, dates |-> dates, values |-> values]
    ELSE IF Len(dates) > 1
         THEN [err |-> FALSE, dates |-> SetLast(dates, date),
               values |-> SetLast(values, value)]
         ELSE [err |-> FALSE, dates |-> Append(dates, date),
               values |-> Append(values, value)]

\* add_data whose flat branch appends the date instead of overwriting it
add_data_FlatAppendsDate(dates, values, date, value) ==
    IF Len(dates) # Len(values)
    THEN [err |-> TRUE, dates |-> dates, values |-> values]
    ELSE IF Len(dates) > 1 /\ value = Last(values) /\ value = values[Len(values) - 1]
         THEN [err |-> FALSE, dates |-> Append(dates, date), values |-> values]
         ELSE [err |-> FALSE, dates |-> Append(dates, date),
               values |-> Append(values, value)]

\* add_data(dates, values, date, value): err is the sys.exit(1) of the length
\* check; otherwise dates and values are the two lists after the call
add_data(dates, values, date, value) ==
    IF Len(dates) # Len(values)
    THEN [err |-> TRUE, dates |-> dates, values |-> values]
    ELSE IF Len(dates) > 1 /\ value = Last(values) /\ value = values[Len(values) - 1]
         THEN [err |-> FALSE, dates |-> SetLast(dates, date), values |-> values]
         ELSE [err |-> FALSE, dates |-> Append(dates, date),
               values |-> Append(values, value)]

\* ------------------------------------------------------------- data model
\* f'{matrix_user}@{matrix_host}' of this run, and another identity that may
\* share the status file
Me == "bot@host"
Other == "other@host"

\* Python's None; JSON's null
None == "None"
JsonNull == "null"

\* access tokens (Python str), and a JSON value that is not a string
TokenStrs == {"tokOld", "tokOther", "tokNew"}
NotAStr == "42"
IsStr(v) == v \in TokenStrs

RoomIds == {"!r1", "!r2"}
Total == "total"
Series == RoomIds \cup {Total}

\* a dict as a function; d[k] = v and del d[k]
EmptyMap == [x \in {} |-> None]
Put(m, k, v) == [x \in (DOMAIN m) \cup {k} |-> IF x = k THEN v ELSE m[x]]
Del(m, k) == [x \in (DOMAIN m) \ {k} |-> m[x]]

\* A room name is a string, kept as the sequence of its pieces so that
\* str.startswith can be computed.
StartsWith(name, prefix) ==
    /\ Len(name) >= Len(prefix)
    /\ SubSeq(name, 1, Len(prefix)) = prefix

\* the name the server gives each room, and the name of the synthetic room
RoomName(r) == IF r = "!r1" THEN <<"deRSE-", "general">>
               ELSE <<"deRSE-", "test", "-room">>
TotalName == <<"Total">>

\* A room record {'name': .., 'counts': ..}.  kind "list" is the pair of
\* parallel lists [dates, values] the collector keeps; kind "dict" is a
\* mapping date -> value, given here by its keys and its values in order.
Room(name, kind, dates, values) ==
    [name |-> name, kind |-> kind, dates |-> dates, values |-> values]

NewRoom(name) == Room(name, "list", <<>>, <<>>)

\* the member lists the server may answer with (the monitoring account
\* "bot" is a member of every room it has joined)
MemberSets == {{"bot"}, {"bot", "u1"}, {"bot", "u2"}}

\* the joined_rooms lists the server may answer with
JoinedLists == {<<>>, <<"!r1">>, <<"!r2">>, <<"!r1", "!r2">>}

\* ------------------------------------------------------------ file contents
\* A file is given by what json.load makes of it: kind "absent" (open
\* fails), "invalid" (not JSON), "null", "array" or "object"; an object by
\* its top-level keys, the value under 'matrix_access_tokens' (tokdict says
\* whether it is an object) and the value under 'rooms'.
ReqKeys == {"matrix_access_tokens", "rooms"}

File(kind, keys, tokdict, tokens, rooms) ==
    [kind |-> kind, keys |-> keys, tokdict |-> tokdict, tokens |-> tokens,
     rooms |-> rooms]

PlainFile(kind) == File(kind, {}, FALSE, EmptyMap, EmptyMap)

\* Python None <-> JSON null for the values of the token mapping
ToJson(v) == IF v = None THEN JsonNull ELSE v
FromJson(v) == IF v = JsonNull THEN None ELSE v

\* json.dump(status, statusfile)
DumpStatus(st) ==
    File("object", ReqKeys, TRUE,
         [i \in DOMAIN st.tokens |-> ToJson(st.tokens[i])], st.rooms)

\* json.dump of the whole status into the counter file
DumpCounter_WholeStatus(st) ==
    File("object", ReqKeys, TRUE,
         [i \in DOMAIN st.tokens |-> ToJson(st.tokens[i])], st.rooms)

\* json.dump({'rooms': status['rooms']}, counterfile, ...)
DumpCounter(st) == File("object", {"rooms"}, FALSE, EmptyMap, st.rooms)

\* the Python value json.load gives, with its type; None when open or
\* json.load raised (the exception is swallowed)
PyNone == [type |-> "NoneType", keys |-> {}, tokdict |-> FALSE,
           tokens |-> EmptyMap, rooms |-> EmptyMap]

JsonLoad(file) ==
    CASE file.kind \in {"absent", "invalid", "null"} -> PyNone
      [] file.kind = "array" -> [PyNone EXCEPT !.type = "list"]
      [] OTHER ->
           [type |-> "dict", keys |-> file.keys, tokdict |-> file.tokdict,
            tokens |-> [i \in DOMAIN file.tokens |-> FromJson(file.tokens[i])],
            rooms |-> file.rooms]

\* the template status_empty, as a Python value and as the status
status_empty_py == [type |-> "dict", keys |-> ReqKeys, tokdict |-> TRUE,
                    tokens |-> EmptyMap, rooms |-> EmptyMap]
status_empty == [tokens |-> EmptyMap, rooms |-> EmptyMap]

\* load_status without the loop over the required keys
load_status_NoKeyCheck(file) ==
    LET parsed == JsonLoad(file)
        s1 == IF parsed.type # "dict" THEN status_empty_py ELSE parsed
        raised == "matrix_access_tokens" \notin s1.keys
        toks1 == IF ~s1.tokdict THEN EmptyMap ELSE s1.tokens
        toks2 == IF Me \notin DOMAIN toks1 \/ ~IsStr(toks1[Me])
                 THEN Put(toks1, Me, None) ELSE toks1
    IN  [raised |-> raised, status |-> [tokens |-> toks2, rooms |-> s1.rooms]]

\* load_status(statusfile_name): the status it returns; raised says that
\* status['matrix_access_tokens'] raised (KeyError) instead
load_status(file) ==
    LET parsed == JsonLoad(file)
        s1 == IF parsed.type # "dict" THEN status_empty_py ELSE parsed
        s2 == IF \E k \in ReqKeys : k \notin s1.keys THEN status_empty_py ELSE s1
        raised == "matrix_access_tokens" \notin s2.keys
        toks1 == IF ~s2.tokdict THEN EmptyMap ELSE s2.tokens
        toks2 == IF Me \notin DOMAIN toks1 \/ ~IsStr(toks1[Me])
                 THEN Put(toks1, Me, None) ELSE toks1
    IN  [raised |-> raised, status |-> [tokens |-> toks2, rooms |-> s2.rooms]]

\* ------------------------------------------------------- what a run starts from
\* series found in a status file of earlier runs
Flat(v) == <<<<FirstTime, FirstTime + 1>>, <<v, v>>>>
Single(v) == <<<<FirstTime>>, <<v>>>>
Corrupt == <<<<FirstTime>>, <<>>>>

ListRoom(name, s) == Room(name, "list", s[1], s[2])
DictRoom(name, s) == Room(name, "dict", s[1], s[2])

\* values found under 'rooms' in a status file
RoomChoices ==
    { EmptyMap,
      Put(EmptyMap, "!r1", ListRoom(RoomName("!r1"), Flat(1))),
      Put(Put(EmptyMap, "!r1", ListRoom(RoomName("!r1"), Single(1))),
          Total, ListRoom(TotalName, Flat(1))),
      Put(EmptyMap, "!r1", ListRoom(RoomName("!r1"), Corrupt)),
      Put(Put(EmptyMap, "!r2", DictRoom(RoomName("!r2"), Single(1))),
          Total, ListRoom(TotalName, Single(0))),
      Put(Put(EmptyMap, "!r2", ListRoom(RoomName("!r2"), Flat(0))),
          Total, DictRoom(TotalName, Single(1))) }

\* values found under 'matrix_access_tokens': <<is an object, the mapping>>
TokChoices ==
    { <<FALSE, EmptyMap>>,
      <<TRUE, EmptyMap>>,
      <<TRUE, Put(EmptyMap, Me, "tokOld")>>,
      <<TRUE, Put(EmptyMap, Me, NotAStr)>>,
      <<TRUE, Put(EmptyMap, Other, "tokOther")>>,
      <<TRUE, Put(Put(EmptyMap, Me, "tokOld"), Other, "tokOther")>> }

SomeTokens == <<TRUE, Put(Put(EmptyMap, Me, "tokOld"), Other, "tokOther")>>
SomeRooms == Put(EmptyMap, "!r1", ListRoom(RoomName("!r1"), Flat(1)))

\* the status files a run may find
StatusFiles ==
    { PlainFile(k) : k \in {"absent", "invalid", "null", "array"} }
    \cup { File("object", {}, FALSE, EmptyMap, EmptyMap) }
    \cup { File("object", {"matrix_access_tokens"}, t[1], t[2], EmptyMap) :
             t \in {SomeTokens, <<FALSE, EmptyMap>>} }
    \cup { File("object", {"rooms"}, FALSE, EmptyMap, r) :
             r \in {EmptyMap, SomeRooms} }
    \cup { File("object", ReqKeys, t[1], t[2], SomeRooms) : t \in TokChoices }
    \cup { File("object", ReqKeys, TRUE, Put(EmptyMap, Me, "tokOld"), r) :
             r \in RoomChoices }

\* a counter file in the keyed representation {date: value}
KeyedCounterFile ==
    File("object", {"rooms"}, FALSE, EmptyMap,
         Put(Put(Put(EmptyMap,
             "!r1", DictRoom(RoomName("!r1"), Flat(2))),
             "!r2", DictRoom(RoomName("!r2"), Single(1))),
             Total, DictRoom(TotalName, <<<<FirstTime, FirstTime + 1>>, <<2, 3>>>>)))

\* the counter files a run may find
CounterFiles == {PlainFile("absent"), PlainFile("invalid"), KeyedCounterFile}

NoPlot == [result |-> "none", lines |-> {}, xmin |-> 0, xmax |-> 0]

\* the recorder's variables while the collector runs
RecorderIdle ==
    /\ rdates = <<>> /\ rvalues = <<>> /\ rstate = "ok"
    /\ rinit = <<<<>>, <<>>>> /\ robs = <<>> /\ rnow = FirstTime

\* the collector's variables before the script has done anything
CollectorStart ==
    /\ pc = "load"
    /\ status = status_empty
    /\ access_token = None
    /\ isodate = 0
    /\ joined = <<>> /\ visited = <<>>
    /\ room_info = EmptyMap
    /\ unique_users = {}
    /\ calls = [s \in Series |-> 0]
    /\ stdout = {}
    /\ exit = "running"
    /\ trace = <<>>
    /\ plot = NoPlot

Init ==
    /\ RecorderIdle
    /\ CollectorStart
    /\ config \in [matrix_always_logout : BOOLEAN]
    /\ statusfile \in StatusFiles
    /\ counterfile \in CounterFiles

\* --------------------------------------------------------------- collector
\* the script ends here: sys.exit(1), an unhandled exception, or its last line
Finish(code, msgs) ==
    /\ pc' = "end"
    /\ exit' = code
    /\ stdout' = stdout \cup msgs

\* status, matrix_access_token_id = load_status(statusfile_name)
LoadStatus ==
    /\ pc = "load"
    /\ LET r == load_status(statusfile)
       IN  /\ trace' = Append(trace, "load")
           /\ IF r.raised
              THEN /\ Finish("exception", {})
                   /\ UNCHANGED status
              ELSE /\ status' = r.status
                   /\ pc' = "login"
                   /\ UNCHANGED <<exit, stdout>>
    /\ UNCHANGED <<config, statusfile, counterfile, access_token, isodate, joined,
                   visited, room_info, unique_users, calls, plot>>
    /\ UNCHANGED rvars

\* matrix = login_matrix(): Matrix.__init__ with the stored access_token
login_matrix ==
    /\ pc = "login"
    /\ \E tokenok \in BOOLEAN, loginok \in BOOLEAN :
         LET stored == status.tokens[Me]
             checked == IF stored # None /\ tokenok THEN stored ELSE None
         IN  \* an answer that is not asked for is fixed, not enumerated
             /\ stored = None => tokenok
             /\ checked # None => loginok
             /\ IF checked = None /\ ~loginok
                THEN /\ Finish("1", {"Could not login to Matrix"})
                     /\ access_token' = checked
                     /\ UNCHANGED <<status, trace>>
                ELSE /\ access_token' = IF checked = None THEN "tokNew" ELSE checked
                     /\ status' = [status EXCEPT !.tokens = Put(@, Me, access_token')]
                     /\ trace' = Append(trace, "auth")
                     /\ pc' = "list"
                     /\ UNCHANGED <<exit, stdout>>
    /\ UNCHANGED <<config, statusfile, counterfile, isodate, joined, visited,
                   room_info, unique_users, calls, plot>>
    /\ UNCHANGED rvars

\* the joined_rooms request, room_info, unique_users and isodate
ListRoomsFailed ==
    /\ pc = "list"
    /\ Finish("1", {"Could not get list of joined rooms"})
    /\ UNCHANGED <<config, statusfile, counterfile, status, access_token, isodate,
                   joined, visited, room_info, unique_users, calls, trace, plot>>
    /\ UNCHANGED rvars

ListRooms ==
    /\ pc = "list"
    /\ \E l \in JoinedLists : joined' = l
    /\ visited' = <<>>
    /\ room_info' = EmptyMap
    /\ unique_users' = {}
    /\ isodate' = Now
    /\ trace' = Append(trace, "list")
    /\ pc' = "loop"
    /\ UNCHANGED <<config, statusfile, counterfile, status, access_token, calls,
                   stdout, exit, plot>>
    /\ UNCHANGED rvars

\* the loop goes on with the next room
NextRoom ==
    /\ joined' = Tail(joined)
    /\ visited' = Append(visited, Head(joined))

\* a room whose joined_members request fails ends the run
RoomMembersFailed_Abort ==
    /\ pc = "loop" /\ joined # <<>>
    /\ Finish("1", {"Could not get list of users of room"})
    /\ UNCHANGED <<config, statusfile, counterfile, status, access_token, isodate,
                   joined, visited, room_info, unique_users, calls, trace, plot>>
    /\ UNCHANGED rvars

\* loop body, joined_members request failed
RoomMembersFailed ==
    /\ pc = "loop" /\ joined # <<>>
    /\ stdout' = stdout \cup {"Could not get list of users of room"}
    /\ NextRoom
    /\ UNCHANGED <<pc, config, statusfile, counterfile, status, access_token, isodate,
                   room_info, unique_users, calls, exit, trace, plot>>
    /\ UNCHANGED rvars

\* a room without a name is skipped, its users still count for 'total'
RoomSkippedNoName_CountsUsers ==
    /\ pc = "loop" /\ joined # <<>>
    /\ Head(joined) \notin DOMAIN status.rooms
    /\ \E users \in MemberSets :
         /\ room_info' = Put(room_info, Head(joined), users)
         /\ unique_users' = unique_users \cup users
    /\ NextRoom
    /\ UNCHANGED <<pc, config, statusfile, counterfile, status, access_token, isodate,
                   calls, stdout, exit, trace, plot>>
    /\ UNCHANGED rvars

\* loop body, room seen for the first time and the m.room.name request failed
RoomSkippedNoName ==
    /\ pc = "loop" /\ joined # <<>>
    /\ Head(joined) \notin DOMAIN status.rooms
    /\ \E users \in MemberSets :
         room_info' = Put(room_info, Head(joined), users)
    /\ NextRoom
    /\ UNCHANGED <<pc, config, statusfile, counterfile, status, access_token, isodate,
                   unique_users, calls, stdout, exit, trace, plot>>
    /\ UNCHANGED rvars

\* loop body, room known or named: add_data on its series
RoomRecorded ==
    /\ pc = "loop" /\ joined # <<>>
    /\ \E users \in MemberSets :
         LET r == Head(joined)
             rooms1 == IF r \in DOMAIN status.rooms THEN status.rooms
                       ELSE Put(status.rooms, r, NewRoom(RoomName(r)))
             rec == rooms1[r]
             res == add_data(rec.dates, rec.values, isodate, Cardinality(users) - 1)
         IN  /\ room_info' = Put(room_info, r, users)
             /\ IF rec.kind # "list"
                THEN \* counts[0] of a mapping: KeyError
                     /\ Finish("exception", {})
                     /\ UNCHANGED <<status, joined, visited, unique_users, calls>>
                ELSE IF res.err
                THEN /\ Finish("1", {"internal error"})
                     /\ status' = [status EXCEPT !.rooms = rooms1]
                     /\ UNCHANGED <<joined, visited, unique_users, calls>>
                ELSE /\ status' = [status EXCEPT !.rooms =
                            Put(rooms1, r, [rec EXCEPT !.dates = res.dates,
                                                       !.values = res.values])]
                     /\ calls' = [calls EXCEPT ![r] = @ + 1]
                     /\ unique_users' = unique_users \cup users
                     /\ NextRoom
                     /\ UNCHANGED <<pc, exit, stdout>>
    /\ UNCHANGED <<config, statusfile, counterfile, access_token, isodate, trace, plot>>
    /\ UNCHANGED rvars

\* where the script goes after the 'total' series: config['matrix_always_logout']
AfterUpdate_NeverLogout == "save_status"

AfterUpdate == IF config.matrix_always_logout THEN "logout" ELSE "save_status"

\* after the loop: the 'total' room and its add_data
RecordTotal ==
    /\ pc = "loop" /\ joined = <<>>
    /\ LET rooms1 == IF Total \in DOMAIN status.rooms THEN status.rooms
                     ELSE Put(status.rooms, Total, NewRoom(TotalName))
           rec == rooms1[Total]
           res == add_data(rec.dates, rec.values, isodate,
                          Cardinality(unique_users) - 1)
       IN  IF rec.kind # "list"
           THEN /\ Finish("exception", {})
                /\ UNCHANGED <<status, calls, trace>>
           ELSE IF res.err
           THEN /\ Finish("1", {"internal error"})
                /\ status' = [status EXCEPT !.rooms = rooms1]
                /\ UNCHANGED <<calls, trace>>
           ELSE /\ status' = [status EXCEPT !.rooms =
                       Put(rooms1, Total, [rec EXCEPT !.dates = res.dates,
                                                      !.values = res.values])]
                /\ calls' = [calls EXCEPT ![Total] = @ + 1]
                /\ trace' = Append(trace, "update")
                /\ pc' = AfterUpdate
                /\ UNCHANGED <<exit, stdout>>
    /\ UNCHANGED <<config, statusfile, counterfile, access_token, isodate, joined,
                   visited, room_info, unique_users, plot>>
    /\ UNCHANGED rvars

\* matrix.logout() and del status['matrix_access_tokens'][matrix_access_token_id]
logout ==
    /\ pc = "logout"
    /\ IF access_token = None
       THEN /\ Finish("1", {"No token known: cannot logout."})
            /\ UNCHANGED <<status, trace>>
       ELSE /\ \E ok \in BOOLEAN :
                 stdout' = IF ok THEN stdout ELSE stdout \cup {"Could not logout."}
            /\ status' = [status EXCEPT !.tokens = Del(@, Me)]
            /\ trace' = Append(trace, "logout")
            /\ pc' = "save_status"
            /\ UNCHANGED exit
    /\ UNCHANGED <<config, statusfile, counterfile, access_token, isodate, joined,
                   visited, room_info, unique_users, calls, plot>>
    /\ UNCHANGED rvars

\* what a file that was opened for writing (and so truncated) holds when
\* json.dump or close raised: a part of the dump, which is not JSON
PartialFile == PlainFile("invalid")

\* how writing a file may go: it is written; os.open / open raises and the
\* file is as it was; or the file is opened and json.dump or close raises
WriteOutcomes == {"written", "open raises", "write raises"}

\* the status file is written (mode 0600), or the exception is printed
SaveStatus ==
    /\ pc = "save_status"
    /\ \E outcome \in WriteOutcomes :
         CASE outcome = "written" ->
                /\ statusfile' = DumpStatus(status)
                /\ UNCHANGED stdout
           [] outcome = "open raises" ->
                /\ stdout' = stdout \cup {"status file: exception printed"}
                /\ UNCHANGED statusfile
           [] OTHER ->
                /\ stdout' = stdout \cup {"status file: exception printed"}
                /\ statusfile' = PartialFile
    /\ trace' = Append(trace, "status")
    /\ pc' = "save_counter"
    /\ UNCHANGED <<config, counterfile, status, access_token, isodate, joined, visited,
                   room_info, unique_users, calls, exit, plot>>
    /\ UNCHANGED rvars

\* the counter file is written, the last statement of the script
SaveCounter ==
    /\ pc = "save_counter"
    /\ counterfile' = DumpCounter(status)
    /\ trace' = Append(trace, "counter")
    /\ Finish("0", {})
    /\ UNCHANGED <<config, statusfile, status, access_token, isodate, joined, visited,
                   room_info, unique_users, calls, plot>>
    /\ UNCHANGED rvars

\* open(counterfile_name, 'w') raises, or it truncates the file and
\* json.dump or close raises: nothing catches it
SaveCounterFailed ==
    /\ pc = "save_counter"
    /\ \E outcome \in WriteOutcomes \ {"written"} :
         counterfile' = IF outcome = "open raises" THEN counterfile
                        ELSE PartialFile
    /\ Finish("exception", {})
    /\ UNCHANGED <<config, statusfile, status, access_token, isodate,
                   joined, visited, room_info, unique_users, calls, trace, plot>>
    /\ UNCHANGED rvars

\* ----------------------------------------------------------------- plotter
\* xmin and xmax before the first room, as years
XminStart == 2999
XmaxStart == 1999

\* the prefixes of the room names the plotter leaves out
ExcludedPrefixes ==
    { <<"deRSE-", "test">>, <<"deRSE-", "enc-test">>, <<"deRSE-", "alt">>,
      <<"de-RSE-alt">> }

Excluded(name) == \E p \in ExcludedPrefixes : StartsWith(name, p)

Min(a, b) == IF a <= b THEN a ELSE b
Max(a, b) == IF a >= b THEN a ELSE b
SetMin(S, start) == IF S = {} THEN start ELSE Min(start, CHOOSE x \in S : \A y \in S : x <= y)
SetMax(S, start) == IF S = {} THEN start ELSE Max(start, CHOOSE x \in S : \A y \in S : x >= y)

\* the rooms the loop draws a line for
Eligible(file) == {r \in DOMAIN file.rooms : ~Excluded(file.rooms[r].name)}

\* data['rooms'] or the sort key list(x[1]['counts'].values())[-1] raises:
\* the JSON is no object with 'rooms', some counts is a list (no .values())
\* or an empty mapping
PlotRaises(file) ==
    \/ file.kind # "object"
    \/ "rooms" \notin file.keys
    \/ \E r \in DOMAIN file.rooms :
          \/ file.rooms[r].kind # "dict"
          \/ Len(file.rooms[r].values) = 0

\* one ax.stairs(counts, edges=times, label=name) per eligible room
Lines(file) ==
    { [label |-> file.rooms[r].name,
       counts |-> file.rooms[r].values,
       edges |-> Append(file.rooms[r].dates, Last(file.rooms[r].dates))] :
      r \in Eligible(file) }

PlotDone ==
    /\ UNCHANGED <<pc, config, statusfile, counterfile, status, access_token, isodate,
                   joined, visited, room_info, unique_users, calls, stdout,
                   exit, trace>>
    /\ UNCHANGED rvars

PlotCannotOpen ==
    /\ exit # "running" /\ plot.result = "none"
    /\ counterfile.kind = "absent"
    /\ plot' = [NoPlot EXCEPT !.result = "cannot open"]
    /\ PlotDone

PlotCannotRead ==
    /\ exit # "running" /\ plot.result = "none"
    /\ counterfile.kind = "invalid"
    /\ plot' = [NoPlot EXCEPT !.result = "cannot read data"]
    /\ PlotDone

PlotException ==
    /\ exit # "running" /\ plot.result = "none"
    /\ counterfile.kind \notin {"absent", "invalid"}
    /\ PlotRaises(counterfile)
    /\ plot' = [NoPlot EXCEPT !.result = "exception"]
    /\ PlotDone

PlotRendered ==
    /\ exit # "running" /\ plot.result = "none"
    /\ counterfile.kind \notin {"absent", "invalid"}
    /\ ~PlotRaises(counterfile)
    /\ plot' = [result |-> "rendered",
                lines |-> Lines(counterfile),
                xmin |-> SetMin({counterfile.rooms[r].dates[1] :
                                   r \in Eligible(counterfile)}, XminStart),
                xmax |-> SetMax({Last(counterfile.rooms[r].dates) :
                                   r \in Eligible(counterfile)}, XmaxStart)]
    /\ PlotDone

Plot == PlotCannotOpen \/ PlotCannotRead \/ PlotException \/ PlotRendered

ProcessRoom == RoomMembersFailed \/ RoomSkippedNoName \/ RoomRecorded

Next ==
    \/ LoadStatus
    \/ login_matrix
    \/ ListRoomsFailed
    \/ ListRooms
    \/ ProcessRoom
    \/ RecordTotal
    \/ logout
    \/ SaveStatus
    \/ SaveCounter
    \/ SaveCounterFailed
    \/ Plot

Spec == Init /\ [][Next]_vars

\* ------------------------------------------------- the recorder on its own
\* the series a sequence of add_data calls may start from
RecStarts == { <<<<>>, <<>>>>, Single(5), Corrupt }

\* the collector's variables while the recorder is driven
CollectorIdle ==
    /\ CollectorStart
    /\ config = [matrix_always_logout |-> FALSE]
    /\ statusfile = PlainFile("absent")
    /\ counterfile = PlainFile("absent")

RecInit ==
    /\ CollectorIdle
    /\ rinit \in RecStarts
    /\ rdates = rinit[1]
    /\ rvalues = rinit[2]
    /\ rstate = "ok"
    /\ robs = <<>>
    /\ rnow = FirstTime

\* one call add_data(rdates, rvalues, date, value)
Record ==
    /\ rstate = "ok"
    /\ Len(robs) < MaxObs
    /\ \E date \in {rnow, rnow + 1}, value \in Vals :
         LET res == add_data(rdates, rvalues, date, value)
         IN  IF res.err
             THEN /\ rstate' = "exit1"
                  /\ UNCHANGED <<rdates, rvalues, robs, rnow>>
             ELSE /\ rdates' = res.dates
                  /\ rvalues' = res.values
                  /\ robs' = Append(robs, [date |-> date, value |-> value])
                  /\ rnow' = date
                  /\ UNCHANGED rstate
    /\ UNCHANGED rinit
    /\ UNCHANGED cvars

RecNext == Record

SpecRec == RecInit /\ [][RecNext]_vars

\* ================================================================== claims
InTrace(p) == \E i \in 1..Len(trace) : trace[i] = p

IsPrefix(s, t) == Len(s) <= Len(t) /\ s = SubSeq(t, 1, Len(s))

\* ---- the recorder (SpecRec)
StartsEqual == Len(rinit[1]) = Len(rinit[2])

\* the points the series started with, then the observations recorded
Hist == [i \in 1..Len(rinit[1]) |-> [date |-> rinit[1][i], value |-> rinit[2][i]]]
        \o robs

\* the observations that are the first or the last of a maximal run of
\* equal values
RunEnds(h) ==
    { i \in 1..Len(h) :
        \/ i = 1
        \/ h[i - 1].value # h[i].value
        \/ i = Len(h)
        \/ h[i + 1].value # h[i].value }

Nth(K, j) == CHOOSE i \in K : Cardinality({k \in K : k <= i}) = j

RunEndDates(h) == [j \in 1..Cardinality(RunEnds(h)) |-> h[Nth(RunEnds(h), j)].date]
RunEndValues(h) == [j \in 1..Cardinality(RunEnds(h)) |-> h[Nth(RunEnds(h), j)].value]

\* C1: for every sequence of add_data calls on a series that starts with
\* timestamps and values of equal length, the two sequences have equal length
\* after every call (and no call takes the internal-error exit).
C1_EqualLength ==
    StartsEqual => (rstate = "ok" /\ Len(rdates) = Len(rvalues))

\* both branches of add_data have acted: three calls, two points
C1_Witness ==
    /\ StartsEqual
    /\ rinit[1] = <<>>
    /\ Len(robs) = 3
    /\ Len(rdates) = 2 /\ Len(rvalues) = 2

\* C2: a run of N >= 2 consecutive equal values is stored as exactly two
\* points, holding the first and the last timestamp of the run, and a run of
\* one value as one point: the series is exactly the first and last
\* observations of every maximal run of equal values, so the 3rd and every
\* later recording of a value only moves the last timestamp.
C2_Plateau ==
    StartsEqual =>
        /\ rdates = RunEndDates(Hist)
        /\ rvalues = RunEndValues(Hist)

\* (t1,5),(t2,5),(t3,5),(t4,7) on an empty series gives [[t1,t3,t4],[5,5,7]]
C2_Witness ==
    /\ rinit[1] = <<>> /\ rinit[2] = <<>>
    /\ Len(robs) = 4
    /\ robs[1].value = 5 /\ robs[2].value = 5 /\ robs[3].value = 5
    /\ robs[4].value = 7
    /\ robs[1].date < robs[2].date /\ robs[2].date < robs[3].date
    /\ rdates = <<robs[1].date, robs[3].date, robs[4].date>>
    /\ rvalues = <<5, 5, 7>>

\* C3: an add_data call whose value differs from the last stored value, or
\* whose series holds fewer than two points, appends exactly the point
\* (date, value) and leaves every stored timestamp and value as it was.
C3_ChangeAppends ==
    [][ ( /\ Len(robs') = Len(robs) + 1
          /\ \/ Len(rvalues) < 2
             \/ Last(robs').value # Last(rvalues) )
        => ( /\ rdates' = Append(rdates, Last(robs').date)
             /\ rvalues' = Append(rvalues, Last(robs').value) ) ]_vars

\* a changed value has been appended to a series of two or more points
C3_Witness ==
    /\ Len(robs) >= 3
    /\ Last(robs).value # robs[Len(robs) - 1].value
    /\ Len(rvalues) >= 3
    /\ Last(rvalues) = Last(robs).value
    /\ Last(rdates) = Last(robs).date

\* ---- the collector and the plotter (Spec)
\* the file is absent or unreadable, not JSON, JSON that is no object, or an
\* object without one of the required keys
Malformed(file) ==
    \/ file.kind # "object"
    \/ ~(ReqKeys \subseteq file.keys)

\* the empty template with the null entry of the current identity
Template == [tokens |-> Put(EmptyMap, Me, None), rooms |-> EmptyMap]

\* C4: for every malformed status file load_status does not raise and
\* returns the empty template: no rooms, and no credential but a null entry
\* for the current identity.
C4_MalformedGivesTemplate ==
    (trace = <<"load">> /\ Malformed(statusfile)) =>
        (exit # "exception" /\ status = Template)

\* an object that has credentials of another identity but lacks 'rooms'
C4_Witness ==
    /\ pc = "login"
    /\ statusfile.kind = "object"
    /\ statusfile.keys = {"matrix_access_tokens"}
    /\ Other \in DOMAIN statusfile.tokens
    /\ status = Template

\* C5: the counter file a run writes is an object with the single key
\* 'rooms'; reading it back gives exactly the rooms of the status the run
\* ended with, 'total' included, and it holds no credential.
C5_CounterFileIsRoomsOnly ==
    exit = "0" =>
        /\ counterfile.kind = "object"
        /\ counterfile.keys = {"rooms"}
        /\ JsonLoad(counterfile).rooms = status.rooms
        /\ Total \in DOMAIN JsonLoad(counterfile).rooms
        /\ ~counterfile.tokdict
        /\ counterfile.tokens = EmptyMap

\* the status holds credentials and rooms when the counter file is written
C5_Witness ==
    /\ exit = "0"
    /\ Me \in DOMAIN status.tokens /\ IsStr(status.tokens[Me])
    /\ Other \in DOMAIN status.tokens
    /\ "!r1" \in DOMAIN counterfile.rooms
    /\ "!r2" \in DOMAIN counterfile.rooms

\* C6: the plotter, run on a counter file the collector has written, reaches
\* rendering without an error and draws one step line per eligible room.
C6_PlotterReadsCollectorFile ==
    (exit = "0" /\ plot.result # "none") =>
        /\ plot.result = "rendered"
        /\ {l.label : l \in plot.lines} =
               {counterfile.rooms[r].name : r \in Eligible(counterfile)}

\* C7: once the run has reached persistence it completes: a file that cannot
\* be written is reported and the process does not end with an unhandled
\* error.
C7_BestEffortPersistence ==
    (pc = "end" /\ InTrace("status")) => exit = "0"

\* C8 as stated: load, authenticate, enumerate, update, persist status,
\* persist counter, and only then the optional logout.
C8_LogoutLast ==
    IsPrefix(trace, <<"load", "auth", "list", "update", "status", "counter",
                      "logout">>)

\* the order of the phases of a run
RunOrder ==
    IF config.matrix_always_logout
    THEN <<"load", "auth", "list", "update", "logout", "status", "counter">>
    ELSE <<"load", "auth", "list", "update", "status", "counter">>

\* C8 amended: a run is one linear pass load, authenticate, enumerate, update,
\* then the requested logout, then persist status, then persist counter; the
\* status file is written before the counter file, and a requested logout
\* happens before either file is persisted.
C8_Order ==
    /\ IsPrefix(trace, RunOrder)
    /\ exit = "0" => trace = RunOrder

\* a run with logout requested has ended
C8_Witness ==
    /\ exit = "0"
    /\ config.matrix_always_logout
    /\ trace = <<"load", "auth", "list", "update", "logout", "status", "counter">>

\* the rooms as load_status gave them (the status file is not yet rewritten)
LoadedRooms == load_status(statusfile).status.rooms

\* C9: a failed member-list request does not end the run.  After the loop
\* every visited room whose request succeeded and that is tracked has had
\* exactly one add_data call with |members| - 1 at this run's timestamp,
\* 'total' has had exactly one, a room whose request failed has had none and
\* its series is as loaded; the run goes on to write both files.  Of the
\* requests of the enumeration only the joined_rooms listing ends the run
\* with exit status 1 (the other exit 1 there is add_data's internal error).
C9_PerRoomFailureTolerated ==
    /\ (exit = "1" /\ InTrace("auth")) =>
           \/ "Could not get list of joined rooms" \in stdout
           \/ "internal error" \in stdout
    /\ (pc \in {"logout", "save_status"}) =>
           /\ joined = <<>>
           /\ calls[Total] = 1
           /\ \A i \in 1..Len(visited) :
                LET r == visited[i]
                IN  IF r \notin DOMAIN room_info
                    THEN /\ calls[r] = 0
                         /\ (r \in DOMAIN status.rooms) = (r \in DOMAIN LoadedRooms)
                         /\ r \in DOMAIN status.rooms =>
                                status.rooms[r] = LoadedRooms[r]
                    ELSE IF r \in DOMAIN status.rooms
                    THEN /\ calls[r] = 1
                         /\ Last(status.rooms[r].values) =
                                Cardinality(room_info[r]) - 1
                         /\ Last(status.rooms[r].dates) = isodate
                    ELSE calls[r] = 0
    /\ exit = "0" =>
           /\ counterfile = DumpCounter(status)
           /\ \/ statusfile = DumpStatus(status)
              \/ "status file: exception printed" \in stdout

\* a run in which the request failed for a stored room and succeeded for
\* another has written both files
C9_Witness ==
    /\ exit = "0"
    /\ visited = <<"!r1", "!r2">>
    /\ "!r1" \notin DOMAIN room_info
    /\ "!r1" \in DOMAIN status.rooms
    /\ "!r2" \in DOMAIN room_info
    /\ calls["!r2"] = 1
    /\ statusfile = DumpStatus(status)
    /\ counterfile = DumpCounter(status)

\* the union of the given rooms' member lists
Members(rooms) == UNION {room_info[r] : r \in rooms}

\* C10 as stated: the value recorded for 'total' is the number of distinct
\* members of all rooms whose member list was fetched in this run, minus 1.
C10_TotalOverFetched ==
    InTrace("update") =>
        Last(status.rooms[Total].values) =
            Cardinality(Members(DOMAIN room_info)) - 1

\* C10 amended: the value recorded for 'total' is the number of distinct
\* members of the rooms whose member list was fetched in this run and that
\* are tracked (stored already, or named when first seen), minus 1.
C10_TotalOverTracked ==
    InTrace("update") =>
        Last(status.rooms[Total].values) =
            Cardinality(Members(DOMAIN room_info \cap DOMAIN status.rooms)) - 1

\* 'total' has been recorded in a run where !r1 is tracked with members
\* {bot, u1} and !r2, with members {bot, u2}, was skipped for lack of a name
C10_Witness ==
    /\ InTrace("update")
    /\ DOMAIN room_info = {"!r1", "!r2"}
    /\ "!r2" \notin DOMAIN status.rooms
    /\ room_info["!r1"] = {"bot", "u1"}
    /\ room_info["!r2"] = {"bot", "u2"}
    /\ Last(status.rooms[Total].values) = 1

====
